---------------------------- MODULE Spec2Model ----------------------------
(***************************************************************************)
(* A model of flyhoney's graphics codec (src/src/graphics.rs): the ten     *)
(* SNES tile formats, the two palettes, the two colour types and the       *)
(* conversions between them.                                               *)
(*                                                                         *)
(* Rust arrays, slices and Vecs are modelled as functions over 0..n-1.     *)
(* A Result is a record with the field ok; an Error is a record           *)
(* [kind, a, b] carrying the variant's name and its fields.                *)
(***************************************************************************)
EXTENDS Integers, Sequences, FiniteSets, TLC

VARIABLES
    fmt,        \* the tile type under test, or "None"
    tile,       \* the tile's bytes (self.0), <<>> while there is no tile
    kind,       \* the palette type under test, or "None"
    palette,    \* the palette's colours (self.0), <<>> while there is no palette
    bgr,        \* a Bgr555 (its u16)
    rgb,        \* an Rgb888 (its u32)
    test,       \* the locals of test_graphics: map_2bpp and the tiles made of it
    ret,        \* the last call: its name, arguments and result
    written     \* history: the pixels as the calls made so far should have left them

vars == <<fmt, tile, kind, palette, bgr, rgb, test, ret, written>>

(***************************************************************************)
(* Machine integers.                                                       *)
(***************************************************************************)
\* a & b, a | b and a ^ b bit by bit
RECURSIVE AndBits(_, _)
AndBits(a, b) == IF a = 0 \/ b = 0 THEN 0 ELSE ((a % 2) * (b % 2)) + 2 * AndBits(a \div 2, b \div 2)

RECURSIVE OrBits(_, _)
OrBits(a, b) == IF a = 0 THEN b ELSE IF b = 0 THEN a ELSE (IF a % 2 = 1 \/ b % 2 = 1 THEN 1 ELSE 0) + 2 * OrBits(a \div 2, b \div 2)

RECURSIVE XorBits(_, _)
XorBits(a, b) == IF a = 0 THEN b ELSE IF b = 0 THEN a ELSE ((a + b) % 2) + 2 * XorBits(a \div 2, b \div 2)

\* the same on bytes, tabulated once
AndTable == [a \in 0 .. 255 |-> [b \in 0 .. 255 |-> AndBits(a, b)]]
OrTable == [a \in 0 .. 255 |-> [b \in 0 .. 255 |-> OrBits(a, b)]]
XorTable == [a \in 0 .. 255 |-> [b \in 0 .. 255 |-> XorBits(a, b)]]

\* a & b on u8 and u16
BitAnd(a, b) == IF a < 256 /\ b < 256 THEN AndTable[a][b] ELSE AndTable[a % 256][b % 256] + 256 * AndTable[a \div 256][b \div 256]

\* a | b on u8 and u16
BitOr(a, b) == IF a < 256 /\ b < 256 THEN OrTable[a][b] ELSE OrTable[a % 256][b % 256] + 256 * OrTable[a \div 256][b \div 256]

\* a ^ b on u8 and u16
BitXor(a, b) == IF a < 256 /\ b < 256 THEN XorTable[a][b] ELSE XorTable[a % 256][b % 256] + 256 * XorTable[a \div 256][b \div 256]

\* a >> n
Shr(a, n) == a \div (2 ^ n)

\* a << n on a u8: the bits shifted out of the byte are lost
ShlU8(a, n) == (a * (2 ^ n)) % 256

\* a << n on a u16
ShlU16(a, n) == ((a % (2 ^ (16 - n))) * (2 ^ n)) % 65536

\* A u32 is held as its two 16-bit halves: TLC's integers are 32-bit signed.
U32(hi, lo) == [hi |-> hi, lo |-> lo]

\* a u8 or u16 as u32
AsU32(a) == U32(0, a)

\* a u32 as u8
AsU8(a) == a.lo % 256

BitAnd32(a, b) == U32(BitAnd(a.hi, b.hi), BitAnd(a.lo, b.lo))

BitOr32(a, b) == U32(BitOr(a.hi, b.hi), BitOr(a.lo, b.lo))

\* a >> n on a u32, n <= 16
Shr32(a, n) == U32(Shr(a.hi, n), BitOr(Shr(a.lo, n), ShlU16(a.hi, 16 - n)))

\* a << n on a u32, n <= 16
Shl32(a, n) == U32(BitOr(ShlU16(a.hi, n), Shr(a.lo, 16 - n)), ShlU16(a.lo, n))

\* the length of a slice, array or Vec
Len0(s) == Cardinality(DOMAIN s)

(***************************************************************************)
(* crate::Error                                                            *)
(***************************************************************************)
NoError == [kind |-> "None", a |-> 0, b |-> 0]
DataLengthMismatch(actual, expected) == [kind |-> "DataLengthMismatch", a |-> actual, b |-> expected]
InvalidColorIndex(v) == [kind |-> "InvalidColorIndex", a |-> v, b |-> 0]
OutOfBounds(v, limit) == [kind |-> "OutOfBounds", a |-> v, b |-> limit]

\* Result<Self, Error> / Result<(), Error> of an operation on a tile's bytes
OkTile(t) == [ok |-> TRUE, err |-> NoError, tile |-> t]
ErrTile(e, t) == [ok |-> FALSE, err |-> e, tile |-> t]

\* Result<u8, Error>
OkValue(v) == [ok |-> TRUE, err |-> NoError, value |-> v]
ErrValue(e) == [ok |-> FALSE, err |-> e, value |-> 0]

\* Result<Vec<_>, Error>
OkVec(v) == [ok |-> TRUE, err |-> NoError, out |-> v]
ErrVec(e) == [ok |-> FALSE, err |-> e, out |-> <<>>]

(***************************************************************************)
(* The bit-plane statements shared by the tile formats.  addrs is the      *)
(* list of byte offsets the format's set_value / get_value names, in the   *)
(* order of its lines: plane p is addrs[p + 1].                            *)
(***************************************************************************)
\* self.0[a] &= mask ^ 0xFF, for each a of addrs in turn
RECURSIVE ClearPlanes(_, _, _, _)
ClearPlanes(store, addrs, mask, p) ==
    IF p > Len(addrs) THEN store
    ELSE ClearPlanes([store EXCEPT ![addrs[p]] = BitAnd(@, BitXor(mask, 255))], addrs, mask, p + 1)

\* self.0[a] |= ((value & (1 << p)) >> p) << index, for each plane p in turn
RECURSIVE OrPlanes(_, _, _, _, _)
OrPlanes(store, addrs, value, index, p) ==
    IF p > Len(addrs) THEN store
    ELSE OrPlanes([store EXCEPT ![addrs[p]] = BitOr(@, ShlU8(Shr(BitAnd(value, 2 ^ (p - 1)), p - 1), index))],
                  addrs, value, index, p + 1)

\* value |= ((self.0[a] & mask) >> index) << p, for each plane p in turn
RECURSIVE ReadPlanes(_, _, _, _, _, _)
ReadPlanes(store, addrs, mask, index, value, p) ==
    IF p > Len(addrs) THEN value
    ELSE ReadPlanes(store, addrs, mask, index,
                    BitOr(value, ShlU8(Shr(BitAnd(store[addrs[p]], mask), index), p - 1)), p + 1)

\* the body of a bit-plane set_value after its checks
WritePixel(store, addrs, x, value) ==
    LET index == 7 - x
        mask == ShlU8(1, index)
    IN  OrPlanes(ClearPlanes(store, addrs, mask, 1), addrs, value, index, 1)

\* the body of a bit-plane get_value after its checks
ReadPixel(store, addrs, x) ==
    LET index == 7 - x
        mask == ShlU8(1, index)
    IN  ReadPlanes(store, addrs, mask, index, 0, 1)

\* buf.try_into() of from_data: an array of n bytes, or DataLengthMismatch(buf.len(), expected)
TileFromData(buf, n, expected) ==
    IF Len0(buf) = n THEN OkTile([i \in 0 .. n - 1 |-> buf[i]])
    ELSE ErrTile(DataLengthMismatch(Len0(buf), expected), <<>>)

\* [0u8; n]
Zeroed(n) == [i \in 0 .. n - 1 |-> 0]

(***************************************************************************)
(* SNESTile1BPP                                                            *)
(***************************************************************************)
SNESTile1BPP_new == Zeroed(8)

SNESTile1BPP_from_data(buf) == TileFromData(buf, 8, 8)

\* a slip: the row checked before the column
SNESTile1BPP_set_value_yfirst(store, x, y, value) ==
    IF y >= 8 THEN ErrTile(OutOfBounds(y, 8), store)
    ELSE IF x >= 8 THEN ErrTile(OutOfBounds(x, 8), store)
    ELSE IF value >= 2 THEN ErrTile(InvalidColorIndex(value), store)
    ELSE LET index == 7 - x
             mask == ShlU8(1, index)
             cleared == [store EXCEPT ![y] = BitAnd(@, BitXor(mask, 255))]
         IN  OkTile([cleared EXCEPT ![y] = BitOr(@, ShlU8(value, index))])

SNESTile1BPP_set_value(store, x, y, value) ==
    IF x >= 8 THEN ErrTile(OutOfBounds(x, 8), store)
    ELSE IF y >= 8 THEN ErrTile(OutOfBounds(y, 8), store)
    ELSE IF value >= 2 THEN ErrTile(InvalidColorIndex(value), store)
    ELSE LET index == 7 - x
             mask == ShlU8(1, index)
             cleared == [store EXCEPT ![y] = BitAnd(@, BitXor(mask, 255))]
         IN  OkTile([cleared EXCEPT ![y] = BitOr(@, ShlU8(value, index))])

SNESTile1BPP_get_value(store, x, y) ==
    IF x >= 8 THEN ErrValue(OutOfBounds(x, 8))
    ELSE IF y >= 8 THEN ErrValue(OutOfBounds(y, 8))
    ELSE LET index == 7 - x
             mask == ShlU8(1, index)
         IN  OkValue(Shr(BitAnd(store[y], mask), index))

(***************************************************************************)
(* SNESTile2BPPPlanar                                                      *)
(***************************************************************************)
SNESTile2BPPPlanar_new == Zeroed(8 * 2)

SNESTile2BPPPlanar_from_data(buf) == TileFromData(buf, 8 * 2, 8 * 2)

SNESTile2BPPPlanar_set_value(store, x, y, value) ==
    IF x >= 8 THEN ErrTile(OutOfBounds(x, 8), store)
    ELSE IF y >= 8 THEN ErrTile(OutOfBounds(y, 8), store)
    ELSE IF value >= 4 THEN ErrTile(InvalidColorIndex(value), store)
    ELSE OkTile(WritePixel(store, <<y, y + 8>>, x, value))

SNESTile2BPPPlanar_get_value(store, x, y) ==
    IF x >= 8 THEN ErrValue(OutOfBounds(x, 8))
    ELSE IF y >= 8 THEN ErrValue(OutOfBounds(y, 8))
    ELSE OkValue(ReadPixel(store, <<y, y + 8>>, x))

(***************************************************************************)
(* SNESTile2BPPIntertwined                                                 *)
(***************************************************************************)
SNESTile2BPPIntertwined_new == Zeroed(8 * 2)

SNESTile2BPPIntertwined_from_data(buf) == TileFromData(buf, 8 * 2, 8 * 2)

\* a slip: the two planes of a row stored in the other order
SNESTile2BPPIntertwined_set_value_swapped(store, x, y, value) ==
    IF x >= 8 THEN ErrTile(OutOfBounds(x, 8), store)
    ELSE IF y >= 8 THEN ErrTile(OutOfBounds(y, 8), store)
    ELSE IF value >= 4 THEN ErrTile(InvalidColorIndex(value), store)
    ELSE OkTile(WritePixel(store, <<y * 2 + 1, y * 2>>, x, value))

SNESTile2BPPIntertwined_set_value(store, x, y, value) ==
    IF x >= 8 THEN ErrTile(OutOfBounds(x, 8), store)
    ELSE IF y >= 8 THEN ErrTile(OutOfBounds(y, 8), store)
    ELSE IF value >= 4 THEN ErrTile(InvalidColorIndex(value), store)
    ELSE OkTile(WritePixel(store, <<y * 2, y * 2 + 1>>, x, value))

SNESTile2BPPIntertwined_get_value(store, x, y) ==
    IF x >= 8 THEN ErrValue(OutOfBounds(x, 8))
    ELSE IF y >= 8 THEN ErrValue(OutOfBounds(y, 8))
    ELSE OkValue(ReadPixel(store, <<y * 2, y * 2 + 1>>, x))

(***************************************************************************)
(* SNESTile3BPPPlanar                                                      *)
(***************************************************************************)
SNESTile3BPPPlanar_new == Zeroed(8 * 3)

SNESTile3BPPPlanar_from_data(buf) == TileFromData(buf, 8 * 3, 8 * 3)

\* a slip: the value check off by one
SNESTile3BPPPlanar_set_value_loose(store, x, y, value) ==
    IF x >= 8 THEN ErrTile(OutOfBounds(x, 8), store)
    ELSE IF y >= 8 THEN ErrTile(OutOfBounds(y, 8), store)
    ELSE IF value > 8 THEN ErrTile(InvalidColorIndex(value), store)
    ELSE OkTile(WritePixel(store, <<y, y + 8, y + 16>>, x, value))

SNESTile3BPPPlanar_set_value(store, x, y, value) ==
    IF x >= 8 THEN ErrTile(OutOfBounds(x, 8), store)
    ELSE IF y >= 8 THEN ErrTile(OutOfBounds(y, 8), store)
    ELSE IF value >= 8 THEN ErrTile(InvalidColorIndex(value), store)
    ELSE OkTile(WritePixel(store, <<y, y + 8, y + 16>>, x, value))

SNESTile3BPPPlanar_get_value(store, x, y) ==
    IF x >= 8 THEN ErrValue(OutOfBounds(x, 8))
    ELSE IF y >= 8 THEN ErrValue(OutOfBounds(y, 8))
    ELSE OkValue(ReadPixel(store, <<y, y + 8, y + 16>>, x))

(***************************************************************************)
(* SNESTile3BPPIntertwined                                                 *)
(***************************************************************************)
SNESTile3BPPIntertwined_new == Zeroed(8 * 3)

SNESTile3BPPIntertwined_from_data(buf) == TileFromData(buf, 8 * 3, 8 * 3)

\* a slip: plane 2 written in the row below
SNESTile3BPPIntertwined_set_value_row(store, x, y, value) ==
    IF x >= 8 THEN ErrTile(OutOfBounds(x, 8), store)
    ELSE IF y >= 8 THEN ErrTile(OutOfBounds(y, 8), store)
    ELSE IF value >= 8 THEN ErrTile(InvalidColorIndex(value), store)
    ELSE OkTile(WritePixel(store, <<y * 2, y * 2 + 1, 16 + ((y + 1) % 8)>>, x, value))

SNESTile3BPPIntertwined_set_value(store, x, y, value) ==
    IF x >= 8 THEN ErrTile(OutOfBounds(x, 8), store)
    ELSE IF y >= 8 THEN ErrTile(OutOfBounds(y, 8), store)
    ELSE IF value >= 8 THEN ErrTile(InvalidColorIndex(value), store)
    ELSE OkTile(WritePixel(store, <<y * 2, y * 2 + 1, y + 16>>, x, value))

\* a slip: plane 2 read where the 4bpp intertwined layout keeps it
SNESTile3BPPIntertwined_get_value_plane2(store, x, y) ==
    IF x >= 8 THEN ErrValue(OutOfBounds(x, 8))
    ELSE IF y >= 8 THEN ErrValue(OutOfBounds(y, 8))
    ELSE OkValue(ReadPixel(store, <<y * 2, y * 2 + 1, (y * 2 + 16) % 24>>, x))

SNESTile3BPPIntertwined_get_value(store, x, y) ==
    IF x >= 8 THEN ErrValue(OutOfBounds(x, 8))
    ELSE IF y >= 8 THEN ErrValue(OutOfBounds(y, 8))
    ELSE OkValue(ReadPixel(store, <<y * 2, y * 2 + 1, y + 16>>, x))

(***************************************************************************)
(* SNESTile4BPPPlanar                                                      *)
(***************************************************************************)
SNESTile4BPPPlanar_new == Zeroed(8 * 4)

SNESTile4BPPPlanar_from_data(buf) == TileFromData(buf, 8 * 4, 8 * 4)

\* a slip: the value is checked after the planes' bits are cleared
SNESTile4BPPPlanar_set_value_late(store, x, y, value) ==
    IF x >= 8 THEN ErrTile(OutOfBounds(x, 8), store)
    ELSE IF y >= 8 THEN ErrTile(OutOfBounds(y, 8), store)
    ELSE LET cleared == ClearPlanes(store, <<y, y + 8, y + 16, y + 24>>, ShlU8(1, 7 - x), 1)
         IN  IF value >= 16 THEN ErrTile(InvalidColorIndex(value), cleared)
             ELSE OkTile(OrPlanes(cleared, <<y, y + 8, y + 16, y + 24>>, value, 7 - x, 1))

SNESTile4BPPPlanar_set_value(store, x, y, value) ==
    IF x >= 8 THEN ErrTile(OutOfBounds(x, 8), store)
    ELSE IF y >= 8 THEN ErrTile(OutOfBounds(y, 8), store)
    ELSE IF value >= 16 THEN ErrTile(InvalidColorIndex(value), store)
    ELSE OkTile(WritePixel(store, <<y, y + 8, y + 16, y + 24>>, x, value))

SNESTile4BPPPlanar_get_value(store, x, y) ==
    IF x >= 8 THEN ErrValue(OutOfBounds(x, 8))
    ELSE IF y >= 8 THEN ErrValue(OutOfBounds(y, 8))
    ELSE OkValue(ReadPixel(store, <<y, y + 8, y + 16, y + 24>>, x))

(***************************************************************************)
(* SNESTile4BPPIntertwined                                                 *)
(***************************************************************************)
SNESTile4BPPIntertwined_new == Zeroed(8 * 4)

SNESTile4BPPIntertwined_from_data(buf) == TileFromData(buf, 8 * 4, 8 * 4)

SNESTile4BPPIntertwined_set_value(store, x, y, value) ==
    IF x >= 8 THEN ErrTile(OutOfBounds(x, 8), store)
    ELSE IF y >= 8 THEN ErrTile(OutOfBounds(y, 8), store)
    ELSE IF value >= 16 THEN ErrTile(InvalidColorIndex(value), store)
    ELSE OkTile(WritePixel(store, <<y * 2, y * 2 + 1, y * 2 + 16, y * 2 + 17>>, x, value))

SNESTile4BPPIntertwined_get_value(store, x, y) ==
    IF x >= 8 THEN ErrValue(OutOfBounds(x, 8))
    ELSE IF y >= 8 THEN ErrValue(OutOfBounds(y, 8))
    ELSE OkValue(ReadPixel(store, <<y * 2, y * 2 + 1, y * 2 + 16, y * 2 + 17>>, x))

(***************************************************************************)
(* SNESTile8BPPPlanar                                                      *)
(***************************************************************************)
SNESTile8BPPPlanar_new == Zeroed(8 * 8)

SNESTile8BPPPlanar_from_data(buf) == TileFromData(buf, 8 * 8, 8 * 8)

SNESTile8BPPPlanar_set_value(store, x, y, value) ==
    IF x >= 8 THEN ErrTile(OutOfBounds(x, 8), store)
    ELSE IF y >= 8 THEN ErrTile(OutOfBounds(y, 8), store)
    ELSE IF value >= 16 THEN ErrTile(InvalidColorIndex(value), store)
    ELSE OkTile(WritePixel(store, <<y, y + 8, y + 16, y + 24, y + 32, y + 40, y + 48, y + 56>>, x, value))

SNESTile8BPPPlanar_get_value(store, x, y) ==
    IF x >= 8 THEN ErrValue(OutOfBounds(x, 8))
    ELSE IF y >= 8 THEN ErrValue(OutOfBounds(y, 8))
    ELSE OkValue(ReadPixel(store, <<y, y + 8, y + 16, y + 24, y + 32, y + 40, y + 48, y + 56>>, x))

(***************************************************************************)
(* SNESTile8BPPIntertwined                                                 *)
(***************************************************************************)
SNESTile8BPPIntertwined_new == Zeroed(8 * 8)

SNESTile8BPPIntertwined_from_data(buf) == TileFromData(buf, 8 * 8, 8 * 8)

\* a slip: the bits of the pixel not cleared before the new ones are set
SNESTile8BPPIntertwined_set_value_or(store, x, y, value) ==
    IF x >= 8 THEN ErrTile(OutOfBounds(x, 8), store)
    ELSE IF y >= 8 THEN ErrTile(OutOfBounds(y, 8), store)
    ELSE OkTile(OrPlanes(store, <<y * 2, y * 2 + 1, y * 2 + 16, y * 2 + 17, y * 2 + 32, y * 2 + 33, y * 2 + 48, y * 2 + 49>>,
                         value, 7 - x, 1))

SNESTile8BPPIntertwined_set_value(store, x, y, value) ==
    IF x >= 8 THEN ErrTile(OutOfBounds(x, 8), store)
    ELSE IF y >= 8 THEN ErrTile(OutOfBounds(y, 8), store)
    ELSE OkTile(WritePixel(store, <<y * 2, y * 2 + 1, y * 2 + 16, y * 2 + 17, y * 2 + 32, y * 2 + 33, y * 2 + 48, y * 2 + 49>>, x, value))

SNESTile8BPPIntertwined_get_value(store, x, y) ==
    IF x >= 8 THEN ErrValue(OutOfBounds(x, 8))
    ELSE IF y >= 8 THEN ErrValue(OutOfBounds(y, 8))
    ELSE OkValue(ReadPixel(store, <<y * 2, y * 2 + 1, y * 2 + 16, y * 2 + 17, y * 2 + 32, y * 2 + 33, y * 2 + 48, y * 2 + 49>>, x))

(***************************************************************************)
(* SNESTileMode7                                                           *)
(***************************************************************************)
SNESTileMode7_new == Zeroed(8 * 8)

SNESTileMode7_from_data(buf) == TileFromData(buf, 8 * 8, 8 * 8)

\* a slip: the row check off by one
SNESTileMode7_set_value_row8(store, x, y, value) ==
    IF x >= 8 THEN ErrTile(OutOfBounds(x, 8), store)
    ELSE IF y > 8 THEN ErrTile(OutOfBounds(y, 8), store)
    ELSE OkTile([store EXCEPT ![y * 8 + x] = value])

SNESTileMode7_set_value(store, x, y, value) ==
    IF x >= 8 THEN ErrTile(OutOfBounds(x, 8), store)
    ELSE IF y >= 8 THEN ErrTile(OutOfBounds(y, 8), store)
    ELSE OkTile([store EXCEPT ![y * 8 + x] = value])

SNESTileMode7_get_value(store, x, y) ==
    IF x >= 8 THEN ErrValue(OutOfBounds(x, 8))
    ELSE IF y >= 8 THEN ErrValue(OutOfBounds(y, 8))
    ELSE OkValue(store[y * 8 + x])

(***************************************************************************)
(* Rgb888 and Bgr555                                                       *)
(***************************************************************************)
Rgb888_get_red(c) == AsU8(BitAnd32(Shr32(c, 16), AsU32(255)))
Rgb888_set_red(c, r) == BitOr32(BitAnd32(c, U32(0, 65535)), Shl32(AsU32(r), 16))
Rgb888_get_green(c) == AsU8(BitAnd32(Shr32(c, 8), AsU32(255)))
Rgb888_set_green(c, g) == BitOr32(BitAnd32(c, U32(255, 255)), Shl32(AsU32(g), 8))
Rgb888_get_blue(c) == AsU8(BitAnd32(c, AsU32(255)))
Rgb888_set_blue(c, b) == BitOr32(BitAnd32(c, U32(255, 65280)), AsU32(b))

\* Rgb888::new: the three setters applied to Self(0)
Rgb888_new(r, g, b) == Rgb888_set_blue(Rgb888_set_green(Rgb888_set_red(U32(0, 0), r), g), b)

\* impl From<u32> for Rgb888: the word as it is
Rgb888_from_u32(data) == data

Bgr555_get_blue(c) == BitAnd(Shr(c, 10), 31)
\* a slip: only four bits of the value kept
Bgr555_set_blue_mask15(c, value) == BitOr(BitAnd(c, 1023), ShlU16(BitAnd(value, 15), 10))
Bgr555_set_blue(c, value) == BitOr(BitAnd(c, 1023), ShlU16(BitAnd(value, 31), 10))
Bgr555_get_green(c) == BitAnd(Shr(c, 5), 31)
\* a slip: the mask 0x7C00 in place of 0x7C1F, red lost
Bgr555_set_green_mask(c, value) == BitOr(BitAnd(c, 31744), ShlU16(BitAnd(value, 31), 5))
Bgr555_set_green(c, value) == BitOr(BitAnd(c, 31775), ShlU16(BitAnd(value, 31), 5))
Bgr555_get_red(c) == BitAnd(c, 31)
Bgr555_set_red(c, value) == BitOr(BitAnd(c, 32736), BitAnd(value, 31))

\* Bgr555::new: the three setters applied to Self(0)
Bgr555_new(r, g, b) == Bgr555_set_blue(Bgr555_set_green(Bgr555_set_red(0, r), g), b)

\* impl From<u16> for Bgr555: the word as it is
Bgr555_from_u16(data) == data

\* a slip: green shifted by 4, its top bit falling off the u8
Rgb888_from_Bgr555_shift4(data) ==
    Rgb888_set_blue(Rgb888_set_green(Rgb888_set_red(U32(0, 0), ShlU8(Bgr555_get_red(data), 3)),
                                     ShlU8(Bgr555_get_green(data), 4)),
                    ShlU8(Bgr555_get_blue(data), 3))

\* impl From<Bgr555> for Rgb888: the shifts are on the u8 the getter returns
Rgb888_from_Bgr555(data) ==
    Rgb888_set_blue(Rgb888_set_green(Rgb888_set_red(U32(0, 0), ShlU8(Bgr555_get_red(data), 3)),
                                     ShlU8(Bgr555_get_green(data), 3)),
                    ShlU8(Bgr555_get_blue(data), 3))

\* a slip: blue shifted by 2
Bgr555_from_Rgb888_shift2(data) ==
    Bgr555_set_blue(Bgr555_set_green(Bgr555_set_red(0, Shr(Rgb888_get_red(data), 3)),
                                     Shr(Rgb888_get_green(data), 3)),
                    Shr(Rgb888_get_blue(data), 2))

\* impl From<Rgb888> for Bgr555
Bgr555_from_Rgb888(data) ==
    Bgr555_set_blue(Bgr555_set_green(Bgr555_set_red(0, Shr(Rgb888_get_red(data), 3)),
                                     Shr(Rgb888_get_green(data), 3)),
                    Shr(Rgb888_get_blue(data), 3))

(***************************************************************************)
(* SNESPalette16 and SNESPalette256: an array of Bgr555                    *)
(***************************************************************************)
\* a slip: the high byte taken first
PaletteArray_be(buf, n) == [k \in 0 .. n - 1 |-> BitOr(BitOr(0, buf[2 * k + 1]), ShlU16(buf[2 * k], 8))]

\* the loop of from_data: array[i/2] = Bgr555(buf[i] | buf[i+1] << 8), i = 0, 2, ..
PaletteArray(buf, n) == [k \in 0 .. n - 1 |-> BitOr(BitOr(0, buf[2 * k]), ShlU16(buf[2 * k + 1], 8))]

SNESPalette16_from_data(buf) ==
    IF Len0(buf) # 16 * 2 THEN ErrTile(DataLengthMismatch(Len0(buf), 16 * 2), <<>>)
    ELSE OkTile(PaletteArray(buf, 16))

\* a slip: the last index refused
SNESPalette16_set_index_15(pal, index, color) ==
    IF index >= 15 THEN ErrTile(InvalidColorIndex(index), pal)
    ELSE OkTile([pal EXCEPT ![index] = color])

SNESPalette16_set_index(pal, index, color) ==
    IF index >= 16 THEN ErrTile(InvalidColorIndex(index), pal)
    ELSE OkTile([pal EXCEPT ![index] = color])

SNESPalette16_get_index(pal, index) ==
    IF index >= 16 THEN ErrValue(InvalidColorIndex(index))
    ELSE OkValue(pal[index])

\* a slip: only a short buffer is refused
SNESPalette256_from_data_short(buf) ==
    IF Len0(buf) < 256 * 2 THEN ErrTile(DataLengthMismatch(Len0(buf), 256 * 2), <<>>)
    ELSE OkTile(PaletteArray(buf, 256))

SNESPalette256_from_data(buf) ==
    IF Len0(buf) # 256 * 2 THEN ErrTile(DataLengthMismatch(Len0(buf), 256 * 2), <<>>)
    ELSE OkTile(PaletteArray(buf, 256))

SNESPalette256_set_index(pal, index, color) == OkTile([pal EXCEPT ![index] = color])

SNESPalette256_get_index(pal, index) == OkValue(pal[index])

PaletteKinds == {"SNESPalette16", "SNESPalette256"}

\* the SNESPalette trait
Palette_from_data(k, buf) ==
    IF k = "SNESPalette16" THEN SNESPalette16_from_data(buf) ELSE SNESPalette256_from_data(buf)

Palette_set_index(k, pal, index, color) ==
    IF k = "SNESPalette16" THEN SNESPalette16_set_index(pal, index, color)
    ELSE SNESPalette256_set_index(pal, index, color)

Palette_get_index(k, pal, index) ==
    IF k = "SNESPalette16" THEN SNESPalette16_get_index(pal, index)
    ELSE SNESPalette256_get_index(pal, index)

(***************************************************************************)
(* The SNESTile trait: the four required methods dispatch on the type.     *)
(***************************************************************************)
Formats ==
    {"SNESTile1BPP", "SNESTile2BPPPlanar", "SNESTile2BPPIntertwined", "SNESTile3BPPPlanar",
     "SNESTile3BPPIntertwined", "SNESTile4BPPPlanar", "SNESTile4BPPIntertwined",
     "SNESTile8BPPPlanar", "SNESTile8BPPIntertwined", "SNESTileMode7"}

new(f) ==
    CASE f = "SNESTile1BPP" -> SNESTile1BPP_new
      [] f = "SNESTile2BPPPlanar" -> SNESTile2BPPPlanar_new
      [] f = "SNESTile2BPPIntertwined" -> SNESTile2BPPIntertwined_new
      [] f = "SNESTile3BPPPlanar" -> SNESTile3BPPPlanar_new
      [] f = "SNESTile3BPPIntertwined" -> SNESTile3BPPIntertwined_new
      [] f = "SNESTile4BPPPlanar" -> SNESTile4BPPPlanar_new
      [] f = "SNESTile4BPPIntertwined" -> SNESTile4BPPIntertwined_new
      [] f = "SNESTile8BPPPlanar" -> SNESTile8BPPPlanar_new
      [] f = "SNESTile8BPPIntertwined" -> SNESTile8BPPIntertwined_new
      [] f = "SNESTileMode7" -> SNESTileMode7_new

from_data(f, buf) ==
    CASE f = "SNESTile1BPP" -> SNESTile1BPP_from_data(buf)
      [] f = "SNESTile2BPPPlanar" -> SNESTile2BPPPlanar_from_data(buf)
      [] f = "SNESTile2BPPIntertwined" -> SNESTile2BPPIntertwined_from_data(buf)
      [] f = "SNESTile3BPPPlanar" -> SNESTile3BPPPlanar_from_data(buf)
      [] f = "SNESTile3BPPIntertwined" -> SNESTile3BPPIntertwined_from_data(buf)
      [] f = "SNESTile4BPPPlanar" -> SNESTile4BPPPlanar_from_data(buf)
      [] f = "SNESTile4BPPIntertwined" -> SNESTile4BPPIntertwined_from_data(buf)
      [] f = "SNESTile8BPPPlanar" -> SNESTile8BPPPlanar_from_data(buf)
      [] f = "SNESTile8BPPIntertwined" -> SNESTile8BPPIntertwined_from_data(buf)
      [] f = "SNESTileMode7" -> SNESTileMode7_from_data(buf)

set_value(f, store, x, y, value) ==
    CASE f = "SNESTile1BPP" -> SNESTile1BPP_set_value(store, x, y, value)
      [] f = "SNESTile2BPPPlanar" -> SNESTile2BPPPlanar_set_value(store, x, y, value)
      [] f = "SNESTile2BPPIntertwined" -> SNESTile2BPPIntertwined_set_value(store, x, y, value)
      [] f = "SNESTile3BPPPlanar" -> SNESTile3BPPPlanar_set_value(store, x, y, value)
      [] f = "SNESTile3BPPIntertwined" -> SNESTile3BPPIntertwined_set_value(store, x, y, value)
      [] f = "SNESTile4BPPPlanar" -> SNESTile4BPPPlanar_set_value(store, x, y, value)
      [] f = "SNESTile4BPPIntertwined" -> SNESTile4BPPIntertwined_set_value(store, x, y, value)
      [] f = "SNESTile8BPPPlanar" -> SNESTile8BPPPlanar_set_value(store, x, y, value)
      [] f = "SNESTile8BPPIntertwined" -> SNESTile8BPPIntertwined_set_value(store, x, y, value)
      [] f = "SNESTileMode7" -> SNESTileMode7_set_value(store, x, y, value)

get_value(f, store, x, y) ==
    CASE f = "SNESTile1BPP" -> SNESTile1BPP_get_value(store, x, y)
      [] f = "SNESTile2BPPPlanar" -> SNESTile2BPPPlanar_get_value(store, x, y)
      [] f = "SNESTile2BPPIntertwined" -> SNESTile2BPPIntertwined_get_value(store, x, y)
      [] f = "SNESTile3BPPPlanar" -> SNESTile3BPPPlanar_get_value(store, x, y)
      [] f = "SNESTile3BPPIntertwined" -> SNESTile3BPPIntertwined_get_value(store, x, y)
      [] f = "SNESTile4BPPPlanar" -> SNESTile4BPPPlanar_get_value(store, x, y)
      [] f = "SNESTile4BPPIntertwined" -> SNESTile4BPPIntertwined_get_value(store, x, y)
      [] f = "SNESTile8BPPPlanar" -> SNESTile8BPPPlanar_get_value(store, x, y)
      [] f = "SNESTile8BPPIntertwined" -> SNESTile8BPPIntertwined_get_value(store, x, y)
      [] f = "SNESTileMode7" -> SNESTileMode7_get_value(store, x, y)

(***************************************************************************)
(* The SNESTile trait: the provided methods.                               *)
(***************************************************************************)
\* for y in 0..8 { for x in 0..8 { push get_value(x, y) or return its error } }
to_colormap(f, store) ==
    LET got == [i \in 0 .. 63 |-> get_value(f, store, i % 8, i \div 8)]
        failed == {i \in 0 .. 63 : ~got[i].ok}
    IN  IF failed # {}
        THEN ErrVec(got[CHOOSE i \in failed : \A j \in failed : i <= j].err)
        ELSE OkVec([i \in 0 .. 63 |-> got[i].value])

\* for i in 0..data.len() { result.set_value(i % 8, i / 8, data[i]) or return its error }
RECURSIVE from_colormap_loop(_, _, _, _)
from_colormap_loop(f, result, data, i) ==
    IF i >= Len0(data) THEN OkTile(result)
    ELSE LET r == set_value(f, result, i % 8, i \div 8, data[i])
         IN  IF r.ok THEN from_colormap_loop(f, r.tile, data, i + 1)
             ELSE ErrTile(r.err, <<>>)

\* a slip: the elements past the 64th left unread
from_colormap_first64(f, colormap) ==
    from_colormap_loop(f, new(f), [i \in {j \in DOMAIN colormap : j < 64} |-> colormap[i]], 0)

from_colormap(f, colormap) == from_colormap_loop(f, new(f), colormap, 0)

\* the colour direct_color_mode pushes for the colormap value c
DirectColor(c, red_bit, green_bit, blue_bit) ==
    LET blue == BitOr(Shr(BitAnd(c, 192), 4), blue_bit)
        green == BitOr(Shr(BitAnd(c, 56), 2), green_bit)
        red == BitOr(ShlU8(BitAnd(c, 7), 1), red_bit)
    IN  Bgr555_set_red(Bgr555_set_green(Bgr555_set_blue(0, blue), green), red)

\* a slip: the green bit taken unshifted
direct_color_mode_green(colormap, palette_arg) ==
    LET red_bit == Shr(BitAnd(palette_arg, 1), 0)
        green_bit == Shr(BitAnd(palette_arg, 2), 0)
        blue_bit == Shr(BitAnd(palette_arg, 4), 1)
    IN  IF ~colormap.ok THEN ErrVec(colormap.err)
        ELSE OkVec([i \in DOMAIN colormap.out |-> DirectColor(colormap.out[i], red_bit, green_bit, blue_bit)])

\* direct_color_mode after its first statement: colormap is what self.to_colormap() returned
direct_color_mode(colormap, palette_arg) ==
    LET red_bit == Shr(BitAnd(palette_arg, 1), 0)
        green_bit == Shr(BitAnd(palette_arg, 2), 1)
        blue_bit == Shr(BitAnd(palette_arg, 4), 1)
    IN  IF ~colormap.ok THEN ErrVec(colormap.err)
        ELSE OkVec([i \in DOMAIN colormap.out |-> DirectColor(colormap.out[i], red_bit, green_bit, blue_bit)])

\* a slip: the error of the last colour index refused, not of the first
to_bgr555_last(colormap, k, pal) ==
    IF ~colormap.ok THEN ErrVec(colormap.err)
    ELSE LET got == [i \in DOMAIN colormap.out |-> Palette_get_index(k, pal, colormap.out[i])]
             failed == {i \in DOMAIN got : ~got[i].ok}
         IN  IF failed # {}
             THEN ErrVec(got[CHOOSE i \in failed : \A j \in failed : i >= j].err)
             ELSE OkVec([i \in DOMAIN got |-> got[i].value])

\* to_bgr555 after its first statement: for c in &colormap { push palette.get_index(*c) or
\* return its error }; colormap is what self.to_colormap() returned
to_bgr555(colormap, k, pal) ==
    IF ~colormap.ok THEN ErrVec(colormap.err)
    ELSE LET got == [i \in DOMAIN colormap.out |-> Palette_get_index(k, pal, colormap.out[i])]
             failed == {i \in DOMAIN got : ~got[i].ok}
         IN  IF failed # {}
             THEN ErrVec(got[CHOOSE i \in failed : \A j \in failed : i <= j].err)
             ELSE OkVec([i \in DOMAIN got |-> got[i].value])

\* a slip: the u16 widened, not converted
to_rgb888_widened(results) ==
    IF ~results.ok THEN ErrVec(results.err)
    ELSE OkVec([i \in DOMAIN results.out |-> U32(0, results.out[i])])

\* to_rgb888 after its first statement: results is what self.to_bgr555(palette) returned
to_rgb888(results) ==
    IF ~results.ok THEN ErrVec(results.err)
    ELSE OkVec([i \in DOMAIN results.out |-> Rgb888_from_Bgr555(results.out[i])])

(***************************************************************************)
(* The inputs the calls are made with.                                     *)
(***************************************************************************)
\* how many generated byte patterns are tried (patterns 0 .. MaxSeed)
MaxSeed == 2

\* how far past the last row and column the coordinates tried go
MaxOver == 2

\* the largest palette_arg tried
MaxPaletteArg == 7

\* a slice literal as a function over 0 .. n-1
Slice(s) == [i \in 0 .. Len(s) - 1 |-> s[i + 1]]

\* byte i of generated pattern k
Pattern(k, i) == ((i + 1) * (37 + 22 * k) + (i \div 8) * 5 + 11 * k) % 256

Buffer(k, n) == [i \in 0 .. n - 1 |-> Pattern(k, i)]

data_1bpp == Slice(<<24, 60, 126, 219, 255, 36, 90, 129>>)

expected_1bpp_map ==
    Slice(<<0,0,0,1,1,0,0,0, 0,0,1,1,1,1,0,0, 0,1,1,1,1,1,1,0, 1,1,0,1,1,0,1,1,
            1,1,1,1,1,1,1,1, 0,0,1,0,0,1,0,0, 0,1,0,1,1,0,1,0, 1,0,0,0,0,0,0,1>>)

map_2bpp ==
    Slice(<<2,2,3,3,3,3,1,1, 2,2,2,1,1,1,1,1, 2,2,3,2,2,1,1,3, 2,2,3,1,2,2,2,2,
            2,2,3,2,2,1,1,1, 2,2,3,1,1,1,1,1, 3,3,2,0,0,2,2,2, 2,2,2,0,0,0,0,0>>)

\* buffer lengths around every tile size
TileLengths == {0, 7, 8, 9, 15, 16, 17, 23, 24, 25, 31, 32, 33, 63, 64, 65}

\* buffer lengths around both palette sizes
PaletteLengths == {0, 31, 32, 33, 511, 512, 513}

\* 64 bytes, or a 64-pixel colormap, rising in steps of 5 from 0: 0, 5, 10, 15, 20, ..
Gradient == [i \in 0 .. 63 |-> (i * 5) % 256]

TileBuffers == {Buffer(k, n) : k \in 0 .. MaxSeed, n \in TileLengths} \cup {data_1bpp, Gradient}

PaletteBuffers == {Buffer(k, n) : k \in 0 .. MaxSeed, n \in PaletteLengths}

\* the pixel depths of the formats
Depths == {1, 2, 3, 4, 8}

\* a 64-pixel colormap of depth d
Colormap(k, d) == [i \in 0 .. 63 |-> Pattern(k, i) % (2 ^ d)]

Colormaps ==
    {Colormap(k, d) : k \in 0 .. MaxSeed, d \in Depths} \cup {map_2bpp, expected_1bpp_map, Gradient}

\* the palettes a tile is coloured with: from_data of a buffer of the type's length
PaletteOf(k, s) == Palette_from_data(k, Buffer(s, IF k = "SNESPalette16" THEN 16 * 2 ELSE 256 * 2)).tile

Palettes == {[kind |-> k, array |-> PaletteOf(k, s)] : k \in PaletteKinds, s \in 0 .. MaxSeed}

\* colormaps of other lengths than 64: none, a row and a pixel, one short, one over
ColormapLengths == {0, 9, 63, 65}

OddColormaps ==
    {[i \in 0 .. n - 1 |-> Pattern(k, i) % (2 ^ d)] : k \in 0 .. MaxSeed, d \in Depths, n \in ColormapLengths}

Coords == 0 .. (7 + MaxOver)

PixelValues == {0, 1, 2, 3, 4, 7, 8, 15, 16, 255}

\* every u8
PaletteIndexes == 0 .. 255

Colours == {0, 1, 31744, 32767, 65535}

(***************************************************************************)
(* The calls.  ret records the last one.                                   *)
(***************************************************************************)
NoCall ==
    [op |-> "none", x |-> 0, y |-> 0, value |-> 0, input |-> <<>>, ok |-> TRUE, err |-> NoError,
     out |-> <<>>, got |-> 0, before |-> <<>>, colormap |-> <<>>]

\* a local not yet assigned, and a Result assigned to one
NotCalled == [called |-> FALSE, ok |-> FALSE, err |-> NoError, val |-> <<>>]
Called(r, val) == [called |-> TRUE, ok |-> r.ok, err |-> r.err, val |-> val]

NoTest ==
    [map_2bpp |-> <<>>, planar_2bpp_result |-> NotCalled, intertwined_2bpp_result |-> NotCalled,
     planar_colormap |-> NotCalled, intertwined_colormap |-> NotCalled]

Init ==
    /\ \/ fmt \in Formats /\ kind = "None"
       \/ fmt = "None" /\ kind \in PaletteKinds
    /\ tile = <<>>
    /\ written = <<>>
    /\ palette = <<>>
    /\ bgr = 0
    /\ rgb = U32(0, 0)
    /\ test = NoTest
    /\ ret = NoCall

\* a tile exists: the last call was a constructor that returned Ok
Built == fmt \in Formats /\ ret.op \in {"new", "from_data", "from_colormap"} /\ ret.ok

\* a tile made by new or from_data: the pixel and colour calls are tried on these
Fresh == Built /\ ret.op # "from_colormap"

\* a palette exists
PaletteBuilt == kind \in PaletteKinds /\ ret.op = "from_data" /\ ret.ok

New ==
    /\ fmt \in Formats /\ ret.op = "none"
    /\ tile' = new(fmt)
    /\ ret' = [NoCall EXCEPT !.op = "new"]
    /\ UNCHANGED <<fmt, kind, palette, bgr, rgb, test, written>>

FromData ==
    /\ fmt \in Formats /\ ret.op = "none"
    /\ \E buf \in TileBuffers :
         LET r == from_data(fmt, buf)
         IN  /\ tile' = r.tile
             /\ ret' = [NoCall EXCEPT !.op = "from_data", !.input = buf, !.ok = r.ok, !.err = r.err]
    /\ UNCHANGED <<fmt, kind, palette, bgr, rgb, test, written>>

FromColormap ==
    /\ fmt \in Formats /\ ret.op = "none"
    /\ \E colormap \in Colormaps \cup OddColormaps :
         LET r == from_colormap(fmt, colormap)
         IN  /\ tile' = r.tile
             /\ ret' = [NoCall EXCEPT !.op = "from_colormap", !.input = colormap, !.ok = r.ok, !.err = r.err]
    /\ UNCHANGED <<fmt, kind, palette, bgr, rgb, test, written>>

ToColormap ==
    /\ Built
    /\ LET r == to_colormap(fmt, tile)
       IN  ret' = [NoCall EXCEPT !.op = "to_colormap", !.ok = r.ok, !.err = r.err, !.out = r.out]
    /\ UNCHANGED <<fmt, tile, kind, palette, bgr, rgb, test, written>>

\* Self::from_colormap(t.to_colormap()): the colormap to_colormap has just returned, encoded again
Reencode ==
    /\ fmt \in Formats /\ ret.op = "to_colormap" /\ ret.ok
    /\ LET r == from_colormap(fmt, ret.out)
       IN  /\ tile' = r.tile
           /\ ret' = [NoCall EXCEPT !.op = "reencode", !.input = ret.out, !.ok = r.ok, !.err = r.err,
                                    !.before = tile]
    /\ UNCHANGED <<fmt, kind, palette, bgr, rgb, test, written>>

DirectColorMode ==
    /\ Fresh
    /\ LET colormap == to_colormap(fmt, tile)
       IN  \E palette_arg \in 0 .. MaxPaletteArg :
             LET r == direct_color_mode(colormap, palette_arg)
             IN  ret' = [NoCall EXCEPT !.op = "direct_color_mode", !.value = palette_arg, !.ok = r.ok,
                                       !.err = r.err, !.out = r.out, !.colormap = colormap.out]
    /\ UNCHANGED <<fmt, tile, kind, palette, bgr, rgb, test, written>>

\* the palette argument is recorded in kind and palette
ToBgr555 ==
    /\ Fresh
    /\ LET colormap == to_colormap(fmt, tile)
       IN  \E pal \in Palettes :
             LET r == to_bgr555(colormap, pal.kind, pal.array)
             IN  /\ kind' = pal.kind
                 /\ palette' = pal.array
                 /\ ret' = [NoCall EXCEPT !.op = "to_bgr555", !.ok = r.ok, !.err = r.err, !.out = r.out,
                                          !.colormap = colormap.out]
    /\ UNCHANGED <<fmt, tile, bgr, rgb, test, written>>

ToRgb888 ==
    /\ Fresh
    /\ LET colormap == to_colormap(fmt, tile)
       IN  \E pal \in Palettes :
             LET r == to_rgb888(to_bgr555(colormap, pal.kind, pal.array))
             IN  /\ kind' = pal.kind
                 /\ palette' = pal.array
                 /\ ret' = [NoCall EXCEPT !.op = "to_rgb888", !.ok = r.ok, !.err = r.err, !.out = r.out,
                                          !.colormap = colormap.out]
    /\ UNCHANGED <<fmt, tile, bgr, rgb, test, written>>

SetValue ==
    /\ Fresh
    /\ \E x \in Coords, y \in Coords, value \in PixelValues :
         LET r == set_value(fmt, tile, x, y, value)
         IN  /\ tile' = r.tile
             /\ ret' = [NoCall EXCEPT !.op = "set_value", !.x = x, !.y = y, !.value = value,
                                      !.ok = r.ok, !.err = r.err, !.before = tile]
    /\ UNCHANGED <<fmt, kind, palette, bgr, rgb, test, written>>

GetValue ==
    /\ Fresh
    /\ \E x \in Coords, y \in Coords :
         LET r == get_value(fmt, tile, x, y)
         IN  ret' = [NoCall EXCEPT !.op = "get_value", !.x = x, !.y = y, !.ok = r.ok, !.err = r.err,
                                   !.got = r.value]
    /\ UNCHANGED <<fmt, tile, kind, palette, bgr, rgb, test, written>>

PaletteFromData ==
    /\ kind \in PaletteKinds /\ ret.op = "none"
    /\ \E buf \in PaletteBuffers :
         LET r == Palette_from_data(kind, buf)
         IN  /\ palette' = r.tile
             /\ ret' = [NoCall EXCEPT !.op = "from_data", !.input = buf, !.ok = r.ok, !.err = r.err]
    /\ UNCHANGED <<fmt, tile, kind, bgr, rgb, test, written>>

SetIndex ==
    /\ PaletteBuilt
    /\ \E index \in PaletteIndexes, color \in Colours :
         LET r == Palette_set_index(kind, palette, index, color)
         IN  /\ palette' = r.tile
             /\ ret' = [NoCall EXCEPT !.op = "set_index", !.x = index, !.value = color, !.ok = r.ok,
                                      !.err = r.err, !.before = palette, !.input = ret.input]
    /\ UNCHANGED <<fmt, tile, kind, bgr, rgb, test, written>>

GetIndex ==
    /\ PaletteBuilt
    /\ \E index \in PaletteIndexes :
         LET r == Palette_get_index(kind, palette, index)
         IN  ret' = [NoCall EXCEPT !.op = "get_index", !.x = index, !.ok = r.ok, !.err = r.err,
                                   !.got = r.value, !.input = ret.input]
    /\ UNCHANGED <<fmt, tile, kind, palette, bgr, rgb, test, written>>

Next ==
    \/ New
    \/ FromData
    \/ FromColormap
    \/ ToColormap
    \/ Reencode
    \/ DirectColorMode
    \/ ToBgr555
    \/ ToRgb888
    \/ SetValue
    \/ GetValue
    \/ PaletteFromData
    \/ SetIndex
    \/ GetIndex

Spec == Init /\ [][Next]_vars

(***************************************************************************)
(* test_graphics, from its line 40: one colormap encoded as 2bpp planar    *)
(* and as 2bpp intertwined, and each tile decoded again.                   *)
(***************************************************************************)
CrossColormaps ==
    Colormaps \cup {[i \in 0 .. 63 |-> Pattern(k, i + 8 * j) % (2 ^ d)] : k \in 0 .. MaxSeed, j \in 0 .. 3, d \in {1, 2}}

InitCross ==
    /\ fmt = "None" /\ kind = "None"
    /\ tile = <<>>
    /\ written = <<>>
    /\ palette = <<>>
    /\ bgr = 0
    /\ rgb = U32(0, 0)
    /\ ret = NoCall
    /\ \E colormap \in CrossColormaps : test = [NoTest EXCEPT !.map_2bpp = colormap]

PlanarFromColormap ==
    /\ ~test.planar_2bpp_result.called
    /\ LET r == from_colormap("SNESTile2BPPPlanar", test.map_2bpp)
       IN  test' = [test EXCEPT !.planar_2bpp_result = Called(r, r.tile)]
    /\ UNCHANGED <<fmt, tile, kind, palette, bgr, rgb, ret, written>>

IntertwinedFromColormap ==
    /\ ~test.intertwined_2bpp_result.called
    /\ LET r == from_colormap("SNESTile2BPPIntertwined", test.map_2bpp)
       IN  test' = [test EXCEPT !.intertwined_2bpp_result = Called(r, r.tile)]
    /\ UNCHANGED <<fmt, tile, kind, palette, bgr, rgb, ret, written>>

PlanarToColormap ==
    /\ test.planar_2bpp_result.ok /\ ~test.planar_colormap.called
    /\ LET r == to_colormap("SNESTile2BPPPlanar", test.planar_2bpp_result.val)
       IN  test' = [test EXCEPT !.planar_colormap = Called(r, r.out)]
    /\ UNCHANGED <<fmt, tile, kind, palette, bgr, rgb, ret, written>>

IntertwinedToColormap ==
    /\ test.intertwined_2bpp_result.ok /\ ~test.intertwined_colormap.called
    /\ LET r == to_colormap("SNESTile2BPPIntertwined", test.intertwined_2bpp_result.val)
       IN  test' = [test EXCEPT !.intertwined_colormap = Called(r, r.out)]
    /\ UNCHANGED <<fmt, tile, kind, palette, bgr, rgb, ret, written>>

NextCross ==
    \/ PlanarFromColormap
    \/ IntertwinedFromColormap
    \/ PlanarToColormap
    \/ IntertwinedToColormap

SpecCross == InitCross /\ [][NextCross]_vars

(***************************************************************************)
(* The colour conversions, applied to colours of both types.               *)
(***************************************************************************)
ByteValues == {0, 9, 255}

\* every u16
BgrValues == 0 .. 65535

\* the u32 of four bytes: each of red, green and blue takes every value, between sampled others
RgbValues ==
    {U32(t * 256 + r, g * 256 + b) : t \in {0, 255}, r \in 0 .. 255, g \in ByteValues, b \in ByteValues}
        \cup {U32(t * 256 + r, g * 256 + b) : t \in {0, 255}, r \in ByteValues, g \in 0 .. 255, b \in ByteValues}
        \cup {U32(t * 256 + r, g * 256 + b) : t \in {0, 255}, r \in ByteValues, g \in ByteValues, b \in 0 .. 255}

Bgr555_as_rgb888(c) == Rgb888_from_Bgr555(c)

Rgb888_as_bgr555(c) == Bgr555_from_Rgb888(c)

InitColor ==
    /\ fmt = "None" /\ kind = "None"
    /\ tile = <<>>
    /\ written = <<>>
    /\ palette = <<>>
    /\ test = NoTest
    /\ ret = NoCall
    /\ \/ bgr \in BgrValues /\ rgb = U32(0, 0)
       \/ bgr = 0 /\ rgb \in RgbValues

AsRgb888 ==
    /\ rgb' = Bgr555_as_rgb888(bgr)
    /\ ret' = [NoCall EXCEPT !.op = "as_rgb888"]
    /\ UNCHANGED <<fmt, tile, kind, palette, bgr, test, written>>

AsBgr555 ==
    /\ bgr' = Rgb888_as_bgr555(rgb)
    /\ ret' = [NoCall EXCEPT !.op = "as_bgr555"]
    /\ UNCHANGED <<fmt, tile, kind, palette, rgb, test, written>>

\* c.as_rgb888().as_bgr555(): ret.value is c
RoundTrip ==
    /\ rgb' = Bgr555_as_rgb888(bgr)
    /\ bgr' = Rgb888_as_bgr555(Bgr555_as_rgb888(bgr))
    /\ ret' = [NoCall EXCEPT !.op = "round_trip", !.value = bgr]
    /\ UNCHANGED <<fmt, tile, kind, palette, test, written>>

NextColor ==
    \/ AsRgb888
    \/ AsBgr555
    \/ RoundTrip

SpecColor == InitColor /\ [][NextColor]_vars

(***************************************************************************)
(* The channel setters and constructors: a colour made from a raw word,    *)
(* then one setter; or a colour made by new.                               *)
(***************************************************************************)
\* raw u16 words: every bit alone, and mixtures
BgrWords == {0, 65535, 32768, 32767, 21845, 43690} \cup {2 ^ k : k \in 0 .. 15}

\* raw u32 words: every bit alone, and mixtures
RgbWords ==
    {U32(0, 0), U32(65535, 65535), U32(255, 65535), U32(65280, 0), U32(21845, 21845), U32(43690, 43690)}
        \cup {U32(2 ^ k, 0) : k \in 0 .. 15} \cup {U32(0, 2 ^ k) : k \in 0 .. 15}

\* every u8
ChannelValues == 0 .. 255

\* (r, g, b): each channel takes every value, between sampled others
ChannelTriples ==
    {<<r, g, b>> : r \in ChannelValues, g \in ByteValues, b \in ByteValues}
        \cup {<<r, g, b>> : r \in ByteValues, g \in ChannelValues, b \in ByteValues}
        \cup {<<r, g, b>> : r \in ByteValues, g \in ByteValues, b \in ChannelValues}

InitChannel ==
    /\ fmt = "None" /\ kind = "None"
    /\ tile = <<>>
    /\ written = <<>>
    /\ palette = <<>>
    /\ bgr = 0
    /\ rgb = U32(0, 0)
    /\ test = NoTest
    /\ ret = NoCall

Bgr555FromU16 ==
    /\ ret.op = "none"
    /\ \E data \in BgrWords :
         /\ bgr' = Bgr555_from_u16(data)
         /\ ret' = [NoCall EXCEPT !.op = "Bgr555::from", !.value = data]
    /\ UNCHANGED <<fmt, tile, kind, palette, rgb, test, written>>

Rgb888FromU32 ==
    /\ ret.op = "none"
    /\ \E data \in RgbWords :
         /\ rgb' = Rgb888_from_u32(data)
         /\ ret' = [NoCall EXCEPT !.op = "Rgb888::from"]
    /\ UNCHANGED <<fmt, tile, kind, palette, bgr, test, written>>

Bgr555New ==
    /\ ret.op = "none"
    /\ \E t \in ChannelTriples :
         /\ bgr' = Bgr555_new(t[1], t[2], t[3])
         /\ ret' = [NoCall EXCEPT !.op = "Bgr555::new", !.x = t[1], !.y = t[2], !.value = t[3]]
    /\ UNCHANGED <<fmt, tile, kind, palette, rgb, test, written>>

Rgb888New ==
    /\ ret.op = "none"
    /\ \E t \in ChannelTriples :
         /\ rgb' = Rgb888_new(t[1], t[2], t[3])
         /\ ret' = [NoCall EXCEPT !.op = "Rgb888::new", !.x = t[1], !.y = t[2], !.value = t[3]]
    /\ UNCHANGED <<fmt, tile, kind, palette, bgr, test, written>>

Bgr555SetRed ==
    /\ ret.op = "Bgr555::from"
    /\ \E value \in ChannelValues :
         /\ bgr' = Bgr555_set_red(bgr, value)
         /\ ret' = [NoCall EXCEPT !.op = "Bgr555::set_red", !.value = value, !.before = bgr]
    /\ UNCHANGED <<fmt, tile, kind, palette, rgb, test, written>>

Bgr555SetGreen ==
    /\ ret.op = "Bgr555::from"
    /\ \E value \in ChannelValues :
         /\ bgr' = Bgr555_set_green(bgr, value)
         /\ ret' = [NoCall EXCEPT !.op = "Bgr555::set_green", !.value = value, !.before = bgr]
    /\ UNCHANGED <<fmt, tile, kind, palette, rgb, test, written>>

Bgr555SetBlue ==
    /\ ret.op = "Bgr555::from"
    /\ \E value \in ChannelValues :
         /\ bgr' = Bgr555_set_blue(bgr, value)
         /\ ret' = [NoCall EXCEPT !.op = "Bgr555::set_blue", !.value = value, !.before = bgr]
    /\ UNCHANGED <<fmt, tile, kind, palette, rgb, test, written>>

Rgb888SetRed ==
    /\ ret.op = "Rgb888::from"
    /\ \E r \in ChannelValues :
         /\ rgb' = Rgb888_set_red(rgb, r)
         /\ ret' = [NoCall EXCEPT !.op = "Rgb888::set_red", !.value = r, !.before = rgb]
    /\ UNCHANGED <<fmt, tile, kind, palette, bgr, test, written>>

Rgb888SetGreen ==
    /\ ret.op = "Rgb888::from"
    /\ \E g \in ChannelValues :
         /\ rgb' = Rgb888_set_green(rgb, g)
         /\ ret' = [NoCall EXCEPT !.op = "Rgb888::set_green", !.value = g, !.before = rgb]
    /\ UNCHANGED <<fmt, tile, kind, palette, bgr, test, written>>

Rgb888SetBlue ==
    /\ ret.op = "Rgb888::from"
    /\ \E b \in ChannelValues :
         /\ rgb' = Rgb888_set_blue(rgb, b)
         /\ ret' = [NoCall EXCEPT !.op = "Rgb888::set_blue", !.value = b, !.before = rgb]
    /\ UNCHANGED <<fmt, tile, kind, palette, bgr, test, written>>

NextChannel ==
    \/ Bgr555FromU16
    \/ Rgb888FromU32
    \/ Bgr555New
    \/ Rgb888New
    \/ Bgr555SetRed
    \/ Bgr555SetGreen
    \/ Bgr555SetBlue
    \/ Rgb888SetRed
    \/ Rgb888SetGreen
    \/ Rgb888SetBlue

SpecChannel == InitChannel /\ [][NextChannel]_vars

(***************************************************************************)
(* What the claims say of the formats.                                     *)
(***************************************************************************)
\* the pixel depth of a format
DepthOf(f) ==
    CASE f = "SNESTile1BPP" -> 1
      [] f \in {"SNESTile2BPPPlanar", "SNESTile2BPPIntertwined"} -> 2
      [] f \in {"SNESTile3BPPPlanar", "SNESTile3BPPIntertwined"} -> 3
      [] f \in {"SNESTile4BPPPlanar", "SNESTile4BPPIntertwined"} -> 4
      [] f \in {"SNESTile8BPPPlanar", "SNESTile8BPPIntertwined", "SNESTileMode7"} -> 8

\* the byte count of a format or palette
BytesOf(f) ==
    CASE f = "SNESTileMode7" -> 64
      [] f = "SNESPalette16" -> 32
      [] f = "SNESPalette256" -> 512
      [] OTHER -> 8 * DepthOf(f)

\* the layout table: the offset of the byte holding plane p of row y
AddrOf(f, p, y) ==
    CASE f = "SNESTile1BPP" -> y
      [] f \in {"SNESTile2BPPPlanar", "SNESTile3BPPPlanar", "SNESTile4BPPPlanar", "SNESTile8BPPPlanar"} -> y + 8 * p
      [] f = "SNESTile2BPPIntertwined" -> 2 * y + p
      [] f = "SNESTile3BPPIntertwined" -> IF p < 2 THEN 2 * y + p ELSE y + 16
      [] f \in {"SNESTile4BPPIntertwined", "SNESTile8BPPIntertwined"} -> 2 * y + 16 * (p \div 2) + (p % 2)

\* bit k of byte b
BitOf(b, k) == (b \div (2 ^ k)) % 2

RECURSIVE PlaneSum(_, _, _, _, _)
PlaneSum(f, B, x, y, p) ==
    IF p >= DepthOf(f) THEN 0
    ELSE BitOf(B[AddrOf(f, p, y)], 7 - x) * (2 ^ p) + PlaneSum(f, B, x, y, p + 1)

\* the value of pixel (x, y) of the bytes B by the layout table
PixelOf(f, B, x, y) == IF f = "SNESTileMode7" THEN B[y * 8 + x] ELSE PlaneSum(f, B, x, y, 0)

\* a 64-element colormap with every value below 2^depth
ValidColormap(f, C) == DOMAIN C = 0 .. 63 /\ \A i \in 0 .. 63 : C[i] < 2 ^ DepthOf(f)

(***************************************************************************)
(* The claims.                                                             *)
(***************************************************************************)
\* C1: round trip: for every format and every 64-element colormap C with all
\* values below 2^depth, from_colormap(C) succeeds and its to_colormap() is C.
C1_RoundTrip ==
    (ret.op = "from_colormap" /\ ValidColormap(fmt, ret.input))
        => /\ ret.ok
           /\ to_colormap(fmt, tile) = OkVec(ret.input)

\* C2: from_colormap inverts to_colormap: encoding the colormap of any tile
\* again succeeds and gives a tile with the same bytes.
C2_Reencode == ret.op = "reencode" => (ret.ok /\ tile = ret.before)

\* C3: to_colormap returns 64 values, the one at y*8+x being what the layout
\* table gives for the tile's bytes: the OR over the planes p of bit 7-x of the
\* byte at addr(p, y) shifted to bit p, and for Mode7 the byte at y*8+x; the
\* 1bpp test vector decodes to the expected map.
C3_Decode ==
    ret.op = "to_colormap"
        => /\ ret.ok
           /\ DOMAIN ret.out = 0 .. 63
           /\ \A x \in 0 .. 7, y \in 0 .. 7 : ret.out[y * 8 + x] = PixelOf(fmt, tile, x, y)
           /\ (fmt = "SNESTile1BPP" /\ tile = data_1bpp) => ret.out = expected_1bpp_map

\* C3's case: a 3bpp intertwined tile decoded, with plane 2 set in some pixel
C3_Witness ==
    /\ ret.op = "to_colormap" /\ fmt = "SNESTile3BPPIntertwined"
    /\ \E i \in 0 .. 63 : ret.out[i] >= 4

\* the least value set_value refuses, 256 where it refuses none
LimitOf(f) ==
    CASE f = "SNESTile1BPP" -> 2
      [] f \in {"SNESTile2BPPPlanar", "SNESTile2BPPIntertwined"} -> 4
      [] f \in {"SNESTile3BPPPlanar", "SNESTile3BPPIntertwined"} -> 8
      [] f \in {"SNESTile4BPPPlanar", "SNESTile4BPPIntertwined", "SNESTile8BPPPlanar"} -> 16
      [] f \in {"SNESTile8BPPIntertwined", "SNESTileMode7"} -> 256

\* C5: with x < 8 and y < 8, set_value fails with an invalid-value error exactly
\* when value >= L: L is 2 for 1bpp, 4 for 2bpp, 8 for 3bpp, 16 for 4bpp and for
\* 8bpp planar; 8bpp intertwined and Mode7 take every byte.
C5_ValueCheck ==
    (ret.op = "set_value" /\ ret.x < 8 /\ ret.y < 8)
        => /\ (ret.err.kind = "InvalidColorIndex") <=> (ret.value >= LimitOf(fmt))
           /\ ret.ok <=> (ret.value < LimitOf(fmt))

\* C5's case: 8bpp planar refusing the value 16
C5_Witness ==
    /\ ret.op = "set_value" /\ fmt = "SNESTile8BPPPlanar" /\ ret.x < 8 /\ ret.y < 8
    /\ ret.value = 16 /\ ret.err = InvalidColorIndex(16)

\* C6: get_value and set_value fail with an out-of-bounds error whenever x >= 8
\* or y >= 8, and never with one when x < 8 and y < 8.
C6_Bounds ==
    ret.op \in {"set_value", "get_value"}
        => IF ret.x >= 8 \/ ret.y >= 8 THEN ~ret.ok /\ ret.err.kind = "OutOfBounds"
           ELSE ret.err.kind # "OutOfBounds"

\* C6's case: a Mode7 set_value at row 8 refused
C6_Witness ==
    /\ ret.op = "set_value" /\ fmt = "SNESTileMode7" /\ ret.x < 8 /\ ret.y = 8
    /\ ret.err.kind = "OutOfBounds"

\* C7: from_data succeeds exactly when the buffer has the type's byte count (tiles
\* 8, 16, 24, 32, 64; palettes 32 and 512); otherwise it fails with a length
\* mismatch carrying the actual and the expected size; a tile built has the
\* buffer's bytes.
C7_ExactLength ==
    ret.op = "from_data"
        => LET T == IF fmt \in Formats THEN fmt ELSE kind
           IN  /\ ret.ok <=> (Len0(ret.input) = BytesOf(T))
               /\ ~ret.ok => ret.err = DataLengthMismatch(Len0(ret.input), BytesOf(T))
               /\ (ret.ok /\ fmt \in Formats) => tile = ret.input

\* C7's case: the 256-entry palette refusing a buffer one byte long
C7_Witness ==
    /\ ret.op = "from_data" /\ kind = "SNESPalette256" /\ Len0(ret.input) = 513
    /\ ret.err = DataLengthMismatch(513, 512)

\* C8: a set_value that returns an error leaves the tile's bytes as they were,
\* and a set_index of the 16-entry palette that returns an error leaves every
\* entry as it was.
C8_NoPartialWrite ==
    /\ (ret.op = "set_value" /\ ~ret.ok) => tile = ret.before
    /\ (ret.op = "set_index" /\ kind = "SNESPalette16" /\ ~ret.ok) => palette = ret.before

\* C8's case: a 4bpp planar set_value refused for its value at a pixel that is not 0
C8_Witness ==
    /\ ret.op = "set_value" /\ fmt = "SNESTile4BPPPlanar" /\ ret.err.kind = "InvalidColorIndex"
    /\ PixelOf(fmt, ret.before, ret.x, ret.y) # 0

\* the channels of a Bgr555 value
RedOf(c) == c % 32
GreenOf(c) == (c \div 32) % 32
BlueOf(c) == (c \div 1024) % 32

\* C9 as stated: for palette arguments a in 0..7 direct_color_mode returns 64
\* colours, never an error, with blue = ((c & 0xC0) >> 4) | ((a >> 2) & 1),
\* green = ((c & 0x38) >> 2) | ((a >> 1) & 1), red = ((c & 0x07) << 1) | (a & 1).
C9_DirectColorStated ==
    (ret.op = "direct_color_mode" /\ ret.value \in 0 .. 7)
        => /\ ret.ok
           /\ DOMAIN ret.out = 0 .. 63
           /\ \A i \in 0 .. 63 :
                LET c == ret.colormap[i]
                    a == ret.value
                IN  /\ BlueOf(ret.out[i]) = (c \div 64) * 4 + ((a \div 4) % 2)
                    /\ GreenOf(ret.out[i]) = ((c \div 8) % 8) * 2 + ((a \div 2) % 2)
                    /\ RedOf(ret.out[i]) = (c % 8) * 2 + (a % 2)

\* C9 amended: as stated, but the palette argument's bit 2 goes to bit 1 of blue:
\* blue = ((c & 0xC0) >> 4) | (((a >> 2) & 1) << 1).
C9_DirectColor ==
    (ret.op = "direct_color_mode" /\ ret.value \in 0 .. 7)
        => /\ ret.ok
           /\ DOMAIN ret.out = 0 .. 63
           /\ ret.colormap = to_colormap(fmt, tile).out
           /\ \A i \in 0 .. 63 :
                LET c == ret.colormap[i]
                    a == ret.value
                IN  /\ BlueOf(ret.out[i]) = (c \div 64) * 4 + ((a \div 4) % 2) * 2
                    /\ GreenOf(ret.out[i]) = ((c \div 8) % 8) * 2 + ((a \div 2) % 2)
                    /\ RedOf(ret.out[i]) = (c % 8) * 2 + (a % 2)
                    /\ ret.out[i] < 32768

\* C9's case: a palette argument with every bit set, and a pixel with every field set
C9_Witness ==
    /\ ret.op = "direct_color_mode" /\ ret.ok /\ ret.value = 7
    /\ \E i \in 0 .. 63 : ret.colormap[i] >= 64 /\ (ret.colormap[i] \div 8) % 8 # 0 /\ ret.colormap[i] % 8 # 0

\* the bytes test_graphics expects of map_2bpp: 3f1f2730273fc000fce0f9eff8e0e7e0
expected_planar_2bpp == Slice(<<63, 31, 39, 48, 39, 63, 192, 0, 252, 224, 249, 239, 248, 224, 231, 224>>)

\* and 3ffc1fe027f930ef27f83fe0c0e700e0
expected_intertwined_2bpp == Slice(<<63, 252, 31, 224, 39, 249, 48, 239, 39, 248, 63, 224, 192, 231, 0, 224>>)

\* C4: a 64-element colormap with values 0..3 encoded as 2bpp planar (bytes P)
\* and as 2bpp intertwined (bytes I) gives I[2y] = P[y] and I[2y+1] = P[y+8]
\* for every row y, and both tiles decode to the colormap; map_2bpp gives the
\* bytes test_graphics expects.
C4_CrossLayout ==
    LET C == test.map_2bpp
        P == test.planar_2bpp_result
        I == test.intertwined_2bpp_result
    IN  (DOMAIN C = 0 .. 63 /\ \A i \in 0 .. 63 : C[i] \in 0 .. 3)
            => /\ P.called => P.ok
               /\ I.called => I.ok
               /\ (P.called /\ I.called)
                    => \A y \in 0 .. 7 : I.val[2 * y] = P.val[y] /\ I.val[2 * y + 1] = P.val[y + 8]
               /\ test.planar_colormap.called => test.planar_colormap = Called(OkVec(C), C)
               /\ test.intertwined_colormap.called => test.intertwined_colormap = Called(OkVec(C), C)
               /\ (C = map_2bpp /\ P.called) => P.val = expected_planar_2bpp
               /\ (C = map_2bpp /\ I.called) => I.val = expected_intertwined_2bpp

\* C4's case: map_2bpp encoded both ways and both tiles decoded
C4_Witness ==
    /\ test.map_2bpp = map_2bpp
    /\ test.planar_2bpp_result.ok /\ test.intertwined_2bpp_result.ok
    /\ test.planar_colormap.ok /\ test.intertwined_colormap.ok

\* the channels of an Rgb888 value
Red24(c) == c.hi % 256
Green24(c) == c.lo \div 256
Blue24(c) == c.lo % 256

\* C10: as_rgb888 gives the Rgb888 whose channels are the Bgr555's channels
\* shifted left by 3, bits 24..31 zero; as_bgr555 gives the Bgr555 whose
\* channels are the Rgb888's channels shifted right by 3.
C10_Conversion ==
    /\ ret.op = "as_rgb888"
         => /\ rgb.hi = RedOf(bgr) * 8
            /\ rgb.lo = (GreenOf(bgr) * 8) * 256 + BlueOf(bgr) * 8
            /\ Red24(rgb) % 8 = 0 /\ Green24(rgb) % 8 = 0 /\ Blue24(rgb) % 8 = 0
    /\ ret.op = "as_bgr555"
         => /\ RedOf(bgr) = Red24(rgb) \div 8
            /\ GreenOf(bgr) = Green24(rgb) \div 8
            /\ BlueOf(bgr) = Blue24(rgb) \div 8

\* C10's case: an Rgb888 with low bits in every channel and bits 24..31 set, converted
C10_Witness ==
    /\ ret.op = "as_bgr555" /\ rgb = U32(255 * 256 + 255, 127 * 256 + 9)
    /\ bgr = 31 + 32 * 15 + 1024 * 1

\* C11 as stated: for every Bgr555 value c, all 16 bits taken as they are,
\* c.as_rgb888().as_bgr555() is c.
C11_RoundTripStated == ret.op = "round_trip" => bgr = ret.value

\* C11 amended: c.as_rgb888().as_bgr555() is c with bit 15 cleared, so it is c
\* for every c below 0x8000, which is every Bgr555::new(r, g, b).
C11_RoundTrip ==
    ret.op = "round_trip"
        => /\ bgr = ret.value % 32768
           /\ ret.value < 32768 => bgr = ret.value

\* C11's case: the colour with every channel at 31 taken through Rgb888 and back
C11_Witness ==
    /\ ret.op = "round_trip" /\ ret.value = 32767
    /\ rgb = U32(248, 248 * 256 + 248)
    /\ bgr = 32767

\* bit 15 of a Bgr555 and bits 24..31 of an Rgb888: the bits of no channel
Unused15(c) == c \div 32768
Unused24(c) == c.hi \div 256

\* the two channels a setter is not for are as they were
OthersKept ==
    /\ ret.op = "Bgr555::set_red" => GreenOf(bgr) = GreenOf(ret.before) /\ BlueOf(bgr) = BlueOf(ret.before)
    /\ ret.op = "Bgr555::set_green" => RedOf(bgr) = RedOf(ret.before) /\ BlueOf(bgr) = BlueOf(ret.before)
    /\ ret.op = "Bgr555::set_blue" => RedOf(bgr) = RedOf(ret.before) /\ GreenOf(bgr) = GreenOf(ret.before)
    /\ ret.op = "Rgb888::set_red" => Green24(rgb) = Green24(ret.before) /\ Blue24(rgb) = Blue24(ret.before)
    /\ ret.op = "Rgb888::set_green" => Red24(rgb) = Red24(ret.before) /\ Blue24(rgb) = Blue24(ret.before)
    /\ ret.op = "Rgb888::set_blue" => Red24(rgb) = Red24(ret.before) /\ Green24(rgb) = Green24(ret.before)

\* C12 as stated: whatever the 16 or 32 bits of the colour are, every bit
\* outside the field of the channel a setter sets is after the call as before.
C12_SetterFrameStated ==
    /\ OthersKept
    /\ ret.op \in {"Bgr555::set_red", "Bgr555::set_green", "Bgr555::set_blue"}
         => Unused15(bgr) = Unused15(ret.before)
    /\ ret.op \in {"Rgb888::set_red", "Rgb888::set_green", "Rgb888::set_blue"}
         => Unused24(rgb) = Unused24(ret.before)

\* C12 amended: a setter leaves every bit of the other two channels as it was,
\* and clears the bits of no channel: bit 15 of a Bgr555, bits 24..31 of an Rgb888.
C12_SetterFrame ==
    /\ OthersKept
    /\ ret.op \in {"Bgr555::set_red", "Bgr555::set_green", "Bgr555::set_blue"} => Unused15(bgr) = 0
    /\ ret.op \in {"Rgb888::set_red", "Rgb888::set_green", "Rgb888::set_blue"} => Unused24(rgb) = 0

\* C12's case: set_green(0) on the word 0xFFFF: red and blue stay 31, bit 15 goes
C12_Witness ==
    /\ ret.op = "Bgr555::set_green" /\ ret.before = 65535 /\ ret.value = 0
    /\ bgr = 31 + 1024 * 31

\* C13: no setter or constructor has an error outcome; a Bgr555 setter, and
\* Bgr555::new, store v mod 32 in the channel and the getter then returns
\* v & 0x1F; an Rgb888 setter, and Rgb888::new, store v and the getter returns v.
C13_Masking ==
    /\ ret.op \in {"Bgr555::set_red", "Bgr555::set_green", "Bgr555::set_blue", "Bgr555::new",
                    "Rgb888::set_red", "Rgb888::set_green", "Rgb888::set_blue", "Rgb888::new"}
         => ret.ok /\ ret.err = NoError
    /\ ret.op = "Bgr555::set_red" => RedOf(bgr) = ret.value % 32 /\ Bgr555_get_red(bgr) = ret.value % 32
    /\ ret.op = "Bgr555::set_green" => GreenOf(bgr) = ret.value % 32 /\ Bgr555_get_green(bgr) = ret.value % 32
    /\ ret.op = "Bgr555::set_blue" => BlueOf(bgr) = ret.value % 32 /\ Bgr555_get_blue(bgr) = ret.value % 32
    /\ ret.op = "Bgr555::new"
         => /\ bgr = (ret.x % 32) + 32 * (ret.y % 32) + 1024 * (ret.value % 32)
            /\ Bgr555_get_red(bgr) = ret.x % 32
            /\ Bgr555_get_green(bgr) = ret.y % 32
            /\ Bgr555_get_blue(bgr) = ret.value % 32
    /\ ret.op = "Rgb888::set_red" => Red24(rgb) = ret.value /\ Rgb888_get_red(rgb) = ret.value
    /\ ret.op = "Rgb888::set_green" => Green24(rgb) = ret.value /\ Rgb888_get_green(rgb) = ret.value
    /\ ret.op = "Rgb888::set_blue" => Blue24(rgb) = ret.value /\ Rgb888_get_blue(rgb) = ret.value
    /\ ret.op = "Rgb888::new"
         => /\ rgb = U32(ret.x, ret.y * 256 + ret.value)
            /\ Rgb888_get_red(rgb) = ret.x
            /\ Rgb888_get_green(rgb) = ret.y
            /\ Rgb888_get_blue(rgb) = ret.value

\* C13's case: set_blue(255) on a Bgr555 stores 31
C13_Witness ==
    /\ ret.op = "Bgr555::set_blue" /\ ret.value = 255 /\ ret.before = 0
    /\ bgr = 31 * 1024

\* C14: on the 16-entry palette get_index and set_index fail, with
\* InvalidColorIndex carrying the index, exactly when index >= 16; on the
\* 256-entry palette they succeed for every index 0..255.
C14_PaletteIndex ==
    ret.op \in {"get_index", "set_index"}
        => /\ kind = "SNESPalette16"
                => /\ ret.ok <=> ret.x < 16
                   /\ ~ret.ok => ret.err = InvalidColorIndex(ret.x)
           /\ kind = "SNESPalette256" => ret.ok /\ ret.err = NoError

\* C14's case: get_index(16) on the 16-entry palette
C14_Witness ==
    /\ ret.op = "get_index" /\ kind = "SNESPalette16" /\ ret.x = 16
    /\ ret.err = InvalidColorIndex(16)

\* C15: a palette from_data built from the bytes B has at every index i the
\* Bgr555 B[2i] | B[2i+1] << 8, and get_index(i) returns it.
C15_DecodeOrder ==
    /\ (ret.op = "from_data" /\ kind \in PaletteKinds /\ ret.ok)
         => /\ DOMAIN palette = 0 .. (BytesOf(kind) \div 2) - 1
            /\ \A i \in DOMAIN palette : palette[i] = ret.input[2 * i] + 256 * ret.input[2 * i + 1]
    /\ (ret.op = "get_index" /\ ret.ok)
         => ret.got = ret.input[2 * ret.x] + 256 * ret.input[2 * ret.x + 1]

\* C15's case: index 255 of the 256-entry palette, made of the last two bytes, which differ
C15_Witness ==
    /\ ret.op = "get_index" /\ kind = "SNESPalette256" /\ ret.x = 255
    /\ ret.input[510] # ret.input[511]
    /\ ret.got = ret.input[510] + 256 * ret.input[511]

\* the indexes of a colormap at which get_index of the palette type k fails
Refused(k, colormap) == {i \in DOMAIN colormap : k = "SNESPalette16" /\ colormap[i] >= 16}

\* the least member of a set of numbers
First(S) == CHOOSE i \in S : \A j \in S : i <= j

\* C16: to_bgr555 returns 64 colours, the one at i being the palette's entry at
\* the colormap's value at i; with the 16-entry palette it fails exactly when
\* some colormap value is >= 16, with InvalidColorIndex carrying the first such
\* value in row-major order; with the 256-entry palette it never fails.
C16_NativeColors ==
    ret.op = "to_bgr555"
        => /\ ret.colormap = to_colormap(fmt, tile).out
           /\ DOMAIN ret.colormap = 0 .. 63
           /\ ret.ok <=> Refused(kind, ret.colormap) = {}
           /\ kind = "SNESPalette256" => ret.ok
           /\ ret.ok => /\ DOMAIN ret.out = 0 .. 63
                        /\ \A i \in 0 .. 63 : ret.out[i] = palette[ret.colormap[i]]
           /\ ~ret.ok => ret.err = InvalidColorIndex(ret.colormap[First(Refused(kind, ret.colormap))])

\* C16's case: the 16-entry palette refusing a tile whose first value above 15
\* is neither its first value nor its only one above 15
C16_Witness ==
    /\ ret.op = "to_bgr555" /\ kind = "SNESPalette16" /\ ~ret.ok
    /\ First(Refused(kind, ret.colormap)) > 0
    /\ \E i \in Refused(kind, ret.colormap) : ret.colormap[i] # ret.err.a

\* C17: to_rgb888 fails exactly when to_bgr555 fails, with its error, and
\* otherwise returns 64 Rgb888, each the conversion (channels shifted left by
\* 3) of the Bgr555 to_bgr555 returns at the same index.
C17_DisplayColors ==
    ret.op = "to_rgb888"
        => LET native == to_bgr555(to_colormap(fmt, tile), kind, palette)
           IN  /\ ret.ok <=> native.ok
               /\ ~ret.ok => ret.err = native.err
               /\ ret.ok => /\ DOMAIN ret.out = 0 .. 63
                            /\ \A i \in 0 .. 63 :
                                 /\ Red24(ret.out[i]) = RedOf(native.out[i]) * 8
                                 /\ Green24(ret.out[i]) = GreenOf(native.out[i]) * 8
                                 /\ Blue24(ret.out[i]) = BlueOf(native.out[i]) * 8
                                 /\ Unused24(ret.out[i]) = 0

\* C17's case: display colours of a tile through the 256-entry palette, not all the same
\* and some with no channel at 0
C17_Witness ==
    /\ ret.op = "to_rgb888" /\ kind = "SNESPalette256" /\ ret.ok
    /\ \E i \in 0 .. 63 : Red24(ret.out[i]) # 0 /\ Green24(ret.out[i]) # 0 /\ Blue24(ret.out[i]) # 0
    /\ \E i, j \in 0 .. 63 : ret.out[i] # ret.out[j]

\* the indexes of a from_colormap input whose set_value fails: those past the
\* last pixel, and those whose value the format refuses
Failing(f, input) == {i \in DOMAIN input : i >= 64 \/ input[i] >= LimitOf(f)}

\* C18: from_colormap writes as many pixels as its input has elements.  With
\* n <= 64 values the format takes it succeeds, pixel i < n (x = i mod 8,
\* y = i div 8) is input[i] and every pixel from n on is 0; with n > 64 and 64
\* good values first it fails with OutOfBounds(8, 8), met at index 64; the error
\* is always that of the first element whose set_value fails.
C18_ColormapLength ==
    ret.op = "from_colormap"
        => LET n == Len0(ret.input)
               bad == Failing(fmt, ret.input)
           IN  /\ ret.ok <=> bad = {}
               /\ ret.ok => \A i \in 0 .. 63 :
                               get_value(fmt, tile, i % 8, i \div 8) = OkValue(IF i < n THEN ret.input[i] ELSE 0)
               /\ (~ret.ok /\ First(bad) < 64) => ret.err = InvalidColorIndex(ret.input[First(bad)])
               /\ (~ret.ok /\ First(bad) >= 64) => First(bad) = 64 /\ ret.err = OutOfBounds(8, 8)

\* C18's case: nine values written to a 4bpp intertwined tile, the ninth not 0
C18_Witness ==
    /\ ret.op = "from_colormap" /\ fmt = "SNESTile4BPPIntertwined" /\ ret.ok
    /\ Len0(ret.input) = 9 /\ ret.input[8] # 0
    /\ get_value(fmt, tile, 0, 1) = OkValue(ret.input[8])
    /\ get_value(fmt, tile, 1, 1) = OkValue(0)

\* the offsets of the plane bytes of row y
RowBytes(f, y) == {AddrOf(f, p, y) : p \in 0 .. DepthOf(f) - 1}

\* C19: a set_value(x, y, v) that succeeds on a bit-plane format leaves bit 7-x
\* of the byte of plane p of row y equal to bit p of v, for every plane p of the
\* format, and every other bit of every byte as it was; on Mode7 it makes byte
\* y*8+x equal to v and leaves every other byte as it was.
C19_SetFrame ==
    (ret.op = "set_value" /\ ret.ok)
        => /\ DOMAIN tile = DOMAIN ret.before
           /\ fmt = "SNESTileMode7"
                => \A a \in DOMAIN tile :
                     tile[a] = IF a = ret.y * 8 + ret.x THEN ret.value ELSE ret.before[a]
           /\ fmt # "SNESTileMode7"
                => /\ \A a \in DOMAIN tile \ RowBytes(fmt, ret.y) : tile[a] = ret.before[a]
                   /\ \A p \in 0 .. DepthOf(fmt) - 1, k \in 0 .. 7 :
                        BitOf(tile[AddrOf(fmt, p, ret.y)], k)
                            = IF k = 7 - ret.x THEN BitOf(ret.value, p)
                              ELSE BitOf(ret.before[AddrOf(fmt, p, ret.y)], k)

\* C19's case: 4 written to a pixel of a 3bpp intertwined tile whose plane-2
\* byte of that row has other bits set, and the tile changed
C19_Witness ==
    /\ ret.op = "set_value" /\ ret.ok /\ fmt = "SNESTile3BPPIntertwined" /\ ret.value = 4
    /\ tile # ret.before
    /\ \E k \in 0 .. 7 : k # 7 - ret.x /\ BitOf(ret.before[ret.y + 16], k) = 1

(***************************************************************************)
(* Histories of set_value and get_value calls on one tile, of any length.  *)
(* written is what the history should have left: the value of the last     *)
(* set_value that succeeded at each pixel, and where there was none the    *)
(* pixel the tile was made with.                                           *)
(***************************************************************************)
\* the (x, y) the calls are made at: two pixels of one row, one of another row,
\* one column too far and one row too far
HistoryPixels == {<<0, 0>>, <<7, 0>>, <<3, 7>>, <<8, 0>>, <<0, 8>>}

HistoryValues == {0, 1, 6, 255}

InitHistory ==
    /\ fmt \in Formats /\ kind = "None"
    /\ palette = <<>>
    /\ bgr = 0
    /\ rgb = U32(0, 0)
    /\ test = NoTest
    /\ \/ /\ tile = new(fmt)
          /\ written = [i \in 0 .. 63 |-> 0]
          /\ ret = [NoCall EXCEPT !.op = "new"]
       \/ \E k \in 0 .. MaxSeed :
            LET buf == Buffer(k, BytesOf(fmt))
            IN  /\ tile = from_data(fmt, buf).tile
                /\ written = [i \in 0 .. 63 |-> PixelOf(fmt, buf, i % 8, i \div 8)]
                /\ ret = [NoCall EXCEPT !.op = "from_data", !.input = buf]

SetValueInHistory ==
    /\ \E c \in HistoryPixels, value \in HistoryValues :
         LET r == set_value(fmt, tile, c[1], c[2], value)
         IN  /\ tile' = r.tile
             /\ written' = IF r.ok THEN [written EXCEPT ![c[2] * 8 + c[1]] = value] ELSE written
             /\ ret' = [NoCall EXCEPT !.op = "set_value", !.ok = r.ok]
    /\ UNCHANGED <<fmt, kind, palette, bgr, rgb, test>>

GetValueInHistory ==
    /\ \E c \in HistoryPixels :
         LET r == get_value(fmt, tile, c[1], c[2])
         IN  ret' = [NoCall EXCEPT !.op = "get_value", !.x = c[1], !.y = c[2], !.ok = r.ok, !.err = r.err,
                                   !.got = r.value]
    /\ UNCHANGED <<fmt, tile, kind, palette, bgr, rgb, test, written>>

NextHistory ==
    \/ SetValueInHistory
    \/ GetValueInHistory

SpecHistory == InitHistory /\ [][NextHistory]_vars

\* C20: after new() or from_data(B) and any number of set_value calls, failed
\* ones among them, get_value(x, y) returns for every x, y in 0..7 the value of
\* the last set_value that succeeded at (x, y), and if there was none 0 after
\* new() and the pixel decoded from B after from_data(B).
C20_LastWrite ==
    /\ ret.op # "get_value"
         => \A x \in 0 .. 7, y \in 0 .. 7 : get_value(fmt, tile, x, y) = OkValue(written[y * 8 + x])
    /\ (ret.op = "get_value" /\ ret.x < 8 /\ ret.y < 8)
         => ret.ok /\ ret.got = written[ret.y * 8 + ret.x]

\* C20's case: an 8bpp intertwined tile made by new(), three pixels written
\* with three values, and then a call that failed
C20_Witness ==
    /\ fmt = "SNESTile8BPPIntertwined" /\ ret.op = "set_value" /\ ~ret.ok
    /\ written[0] = 6 /\ written[7] = 255 /\ written[59] = 1
    /\ \A i \in 0 .. 63 : i \notin {0, 7, 59} => written[i] = 0
    /\ get_value(fmt, tile, 7, 0) = OkValue(255)

\* C21: set_value and get_value check x, then y, then the value.  With x >= 8
\* the error is OutOfBounds(x, 8) whatever y and the value are; with x < 8 and
\* y >= 8 it is OutOfBounds(y, 8) whatever the value is; InvalidColorIndex,
\* carrying the value, is returned only by set_value with x < 8 and y < 8.
C21_Precedence ==
    ret.op \in {"set_value", "get_value"}
        => /\ ret.x >= 8 => ~ret.ok /\ ret.err = OutOfBounds(ret.x, 8)
           /\ (ret.x < 8 /\ ret.y >= 8) => ~ret.ok /\ ret.err = OutOfBounds(ret.y, 8)
           /\ ret.err.kind = "InvalidColorIndex"
                => /\ ret.op = "set_value" /\ ret.x < 8 /\ ret.y < 8
                   /\ ret.err = InvalidColorIndex(ret.value)

\* C21's case: a 1bpp set_value with all three arguments bad, x and y differently
C21_Witness ==
    /\ ret.op = "set_value" /\ fmt = "SNESTile1BPP"
    /\ ret.x = 9 /\ ret.y = 8 /\ ret.value = 255
    /\ ret.err = OutOfBounds(9, 8)

=============================================================================
